---------------------------- MODULE Spec2Model ----------------------------
(***************************************************************************)
(* A model of the semantic crawler Rufus (src/rufus.py): one crawl() run   *)
(* on a freshly constructed crawler object, as main() performs it.         *)
(*                                                                         *)
(* A URL is a sequence of tokens: the scheme ("https://") is one token,    *)
(* every other token is one character of the URL.  The oracle (the OpenAI  *)
(* client) and the browser (Playwright) are the environment: every call    *)
(* into them picks one of its possible outcomes.  crawl_page is recursive; *)
(* its activations are the frames of `stack`, the last one running.        *)
(*                                                                         *)
(* Spec is that run on a site whose pages may hold any anchors; SpecSite   *)
(* is the run on one of a few fixed sites; SpecReuse lets crawl() be       *)
(* called again on the same object.                                        *)
(***************************************************************************)
EXTENDS Integers, Sequences, FiniteSets, TLC

(***************************************************************************)
(* Bounds of the model.                                                    *)
(***************************************************************************)
MaxDepth == 2      \* max_depth ranges over -1 .. MaxDepth
MaxAnchors == 2    \* a page holds at most MaxAnchors <a href> elements
MaxRuns == 2       \* crawl() is called at most MaxRuns times on one object

(***************************************************************************)
(* Strings as token sequences.                                             *)
(***************************************************************************)
StartsWith(s, p) == Len(p) <= Len(s) /\ SubSeq(s, 1, Len(p)) = p

EndsWith(s, p) == Len(p) <= Len(s) /\ SubSeq(s, Len(s) - Len(p) + 1, Len(s)) = p

Schemes == {<<"http://">>, <<"https://">>}

HasScheme(s) == \E sc \in Schemes : StartsWith(s, sc)

\* The position of the first token of s equal to t from position k on,
\* Len(s) + 1 when there is none.
RECURSIVE IndexFrom(_, _, _)
IndexFrom(s, t, k) ==
    IF k > Len(s) THEN Len(s) + 1
    ELSE IF s[k] = t THEN k
    ELSE IndexFrom(s, t, k + 1)

\* The position of the last token of s equal to t at or before k, 0 if none.
RECURSIVE LastIndexUpTo(_, _, _)
LastIndexUpTo(s, t, k) ==
    IF k < 1 THEN 0
    ELSE IF s[k] = t THEN k
    ELSE LastIndexUpTo(s, t, k - 1)

\* str.strip(): leading and trailing blanks removed.
RECURSIVE LStrip(_)
LStrip(s) == IF s # <<>> /\ Head(s) = " " THEN LStrip(Tail(s)) ELSE s

RECURSIVE RStrip(_)
RStrip(s) ==
    IF s # <<>> /\ s[Len(s)] = " " THEN RStrip(SubSeq(s, 1, Len(s) - 1)) ELSE s

Strip(s) == RStrip(LStrip(s))

\* str.upper() on the letters the oracle's answers are written with.
UpperChar(c) ==
    CASE c = "t" -> "T"
      [] c = "r" -> "R"
      [] c = "u" -> "U"
      [] c = "e" -> "E"
      [] c = "f" -> "F"
      [] c = "a" -> "A"
      [] c = "l" -> "L"
      [] c = "s" -> "S"
      [] OTHER -> c

Upper(s) == [k \in 1..Len(s) |-> UpperChar(s[k])]

\* str.split(','): the pieces between commas; the empty text has one piece.
RECURSIVE Split(_)
Split(s) ==
    LET k == IndexFrom(s, ",", 1)
    IN  IF k > Len(s) THEN <<s>>
        ELSE <<SubSeq(s, 1, k - 1)>> \o Split(SubSeq(s, k + 1, Len(s)))

(***************************************************************************)
(* The environment: the site's URLs and hrefs, the oracle's answers.       *)
(***************************************************************************)
Err == <<"!">>      \* the call raised (timeout, API error, malformed response)

\* What the user may type as base URL (main, crawl's base_url argument).
BaseInputs ==
    { <<"e">>, <<"e", "/">>, <<"https://", "e">>, <<"https://", "e", "/">> }

\* A host that has the un-slashed base URL as a prefix.
OtherHost == <<"https://", "e", "x", "/">>

\* What link.get_attribute('href') may return: an empty, a root-relative,
\* a relative href, and an absolute one to another host.
Hrefs == { <<>>, <<"/">>, <<"/", "a">>, <<"b">>, OtherHost }

\* The pages of a fixed site, as absolute URLs.
PageBase == <<"https://", "e", "/">>

PageA == <<"https://", "e", "/", "a">>

PageB == <<"https://", "e", "/", "b">>

PageC == <<"https://", "e", "/", "c">>

Pages == {PageBase, PageA, PageB, PageC}

\* Fixed sites: the hrefs of the anchors of each page, in document order.
\* In Shadowed, /b is two links from the base page by way of /a and one
\* link directly, and /c is linked from /b only.
Shadowed ==
    [u \in Pages |->
        CASE u = PageBase -> << <<"/", "a">>, <<"b">> >>
          [] u = PageA -> << <<"b">> >>
          [] u = PageB -> << <<"/", "c">> >>
          [] OTHER -> <<>>]

\* A cycle through the base page, and a link to another host.
Cyclic ==
    [u \in Pages |->
        CASE u = PageBase -> << <<"/", "a">> >>
          [] u = PageA -> << <<"/">>, <<"b">> >>
          [] u = PageB -> << <<"/", "a">>, OtherHost >>
          [] OTHER -> <<>>]

\* A chain of three links that leads back to the base page.
Chain ==
    [u \in Pages |->
        CASE u = PageBase -> << <<"/", "a">> >>
          [] u = PageA -> << <<"b">> >>
          [] u = PageB -> << <<"/", "c">> >>
          [] OTHER -> << <<"/">> >>]

Sites == {Shadowed, Cyclic, Chain}

\* message.content of a TRUE/FALSE answer, or Err.
VerdictResponses ==
    { <<"T", "R", "U", "E">>, <<" ", "t", "r", "u", "e", " ">>,
      <<"F", "A", "L", "S", "E">>, <<"y", "e", "s">>, Err }

\* message.content of a keyword answer, or Err.
KeywordResponses == { <<"k", ",", " ", "j">>, <<>>, Err }


(***************************************************************************)
(* Pure functions of the code.                                             *)
(***************************************************************************)
\* crawl, lines 297-298: the scheme is prepended when there is none.
WithScheme(b) == IF HasScheme(b) THEN b ELSE <<"https://">> \o b

\* The slash is not appended.
WithSlashOmitted(b) == b

\* crawl, lines 299-300: the slash is appended when there is none.
WithSlash(b) == IF EndsWith(b, <<"/">>) THEN b ELSE b \o <<"/">>

Normalize(b) == WithSlash(WithScheme(b))

\* urllib.parse.urljoin for the href shapes of Hrefs: an absolute href is
\* the result; a root-relative one replaces the path; a relative one
\* replaces what follows the last slash of the path; an empty one gives the
\* current URL.
Origin(u) == SubSeq(u, 1, IndexFrom(u, "/", 1) - 1)

Directory(u) ==
    LET k == LastIndexUpTo(u, "/", Len(u))
    IN  IF k = 0 THEN u \o <<"/">> ELSE SubSeq(u, 1, k)

urljoin(current_url, href) ==
    IF href = <<>> THEN current_url
    ELSE IF HasScheme(href) THEN href
    ELSE IF Head(href) = "/" THEN Origin(current_url) \o href
    ELSE Directory(current_url) \o href

\* get_semantic_keywords, lines 62-78: the answer split at commas, each
\* piece stripped; the empty sequence when the call raised.
get_semantic_keywords(response) ==
    IF response = Err THEN <<>>
    ELSE LET parts == Split(response)
         IN  [k \in 1..Len(parts) |-> Strip(parts[k])]

\* A raising call counts as TRUE.
ParseVerdictFailOpen(response) ==
    IF response = Err THEN TRUE
    ELSE Upper(Strip(response)) = <<"T", "R", "U", "E">>

\* is_content_relevant and should_follow_link, lines 105-121 and 151-167:
\* content.strip().upper() == "TRUE", False when the call raised.
ParseVerdict(response) ==
    IF response = Err THEN FALSE
    ELSE Upper(Strip(response)) = <<"T", "R", "U", "E">>

is_content_relevant(response) == ParseVerdict(response)

should_follow_link(response) == ParseVerdict(response)

\* An oracle answer that is neither a TRUE verdict nor a keyword list.
NegativeVerdict(response) ==
    response = Err \/ Upper(Strip(response)) # <<"T", "R", "U", "E">>

NegativeKeywords(response) == response = Err \/ response = <<>>

(***************************************************************************)
(* Python containers.                                                      *)
(***************************************************************************)
\* A dict as a function; d[k] = v on it.
DictPut(d, k, v) == [x \in DOMAIN d \cup {k} |-> IF x = k THEN v ELSE d[x]]

EmptyDict == [x \in {} |-> FALSE]

\* A dict whose iteration order matters (link_relevance): a sequence of
\* <<key, value>> pairs in insertion order; assigning to a key it holds
\* keeps the key's place.
OrderedKeys(d) == {d[k][1] : k \in 1..Len(d)}

OrderedPut(d, key, v) ==
    IF key \in OrderedKeys(d)
    THEN [k \in 1..Len(d) |-> IF d[k][1] = key THEN <<key, v>> ELSE d[k]]
    ELSE Append(d, <<key, v>>)

\* A per-URL call counter (bookkeeping of the model, not program state).
Count(c, u) == IF u \in DOMAIN c THEN c[u] ELSE 0

Bump(c, u) == DictPut(c, u, Count(c, u) + 1)

(***************************************************************************)
(* The state.                                                              *)
(***************************************************************************)
VARIABLES
    pc,              \* where crawl() is: "crawl", "crawl_page", "finally", "done", "raised"
    base_url,        \* crawl's base_url (normalised by crawl itself)
    max_depth,       \* crawl's max_depth
    browser,         \* "none", "open", "closed"
    visited_urls,    \* self.visited_urls
    page_relevance,  \* self.page_relevance
    page_data,       \* self.page_data
    depth_data,      \* self.depth_data
    keywords,        \* self.keywords
    stack,           \* the activations of crawl_page, the running one last
    report,          \* the results dict save_results builds
    calls,           \* bookkeeping: how often each call was made, per URL
    failed,          \* bookkeeping: the URLs whose load raised
    followable,      \* bookkeeping: the URLs a finished link analysis left True
    all_negative,    \* bookkeeping: no oracle answer so far was positive
    result,          \* what crawl() has given its caller
    run,             \* the number of this crawl() call on the crawler object
    web              \* the site: the hrefs of the pages that are fixed

vars ==
    << pc, base_url, max_depth, browser, visited_urls, page_relevance, page_data,
       depth_data, keywords, stack, report, calls, failed, followable, all_negative,
       result, run, web >>

run_state == << visited_urls, page_relevance, page_data, depth_data, keywords >>

\* Nothing has been called yet.
NoCalls ==
    [ enter |-> EmptyDict, goto |-> EmptyDict, classify |-> EmptyDict,
      keywords |-> 0, analyze |-> {}, follow |-> {}, recurse |-> {},
      answer |-> Err, judged |-> {}, smooth |-> TRUE, depth |-> EmptyDict ]

NoReport ==
    [ built |-> FALSE, total_pages |-> 0, relevant_pages |-> 0,
      keywords_used |-> <<>>, relevance_map |-> EmptyDict,
      depth_analysis |-> EmptyDict, page_data |-> EmptyDict ]

\* Python's None, and what the caller of crawl() holds before it returns.
NoneValue == [none |-> TRUE]

NoResult == [returned |-> FALSE, value |-> NoneValue, write_error |-> FALSE]

\* No page of the site is fixed: every page may hold any anchors.
AnySite == [u \in {} |-> <<>>]

\* Rufus.__init__, lines 37-41.
Constructed ==
    /\ visited_urls = {}
    /\ page_relevance = EmptyDict
    /\ page_data = EmptyDict
    /\ depth_data = EmptyDict
    /\ keywords = <<>>

\* crawl() has been called and has not run yet.
Called ==
    /\ pc = "crawl"
    /\ base_url \in BaseInputs
    /\ max_depth \in -1..MaxDepth
    /\ browser = "none"
    /\ stack = <<>>
    /\ report = NoReport
    /\ result = NoResult
    /\ calls = NoCalls
    /\ failed = {}
    /\ followable = {}
    /\ all_negative = TRUE

Init ==
    /\ Constructed
    /\ Called
    /\ run = 1
    /\ web = AnySite

(***************************************************************************)
(* The decisions of crawl_page and analyze_page_links.                     *)
(***************************************************************************)
\* The membership test always fails.
NeverVisited(url, visited) == FALSE

\* `url in self.visited_urls`, lines 183, 207 and 248.
AlreadyVisited(url, visited) == url \in visited

\* The depth is not tested.
SkipPageAtAnyDepth(depth, max, url, visited) == AlreadyVisited(url, visited)

\* Line 207: the call returns at once.
SkipPage(depth, max, url, visited) == depth > max \/ AlreadyVisited(url, visited)

\* The URL is not added.
MarkVisitedForgets(visited, url) == visited

\* Line 210.
MarkVisited(visited, url) == visited \cup {url}

\* Lines 212-213.
InitDepth(dd, depth) == IF depth \in DOMAIN dd THEN dd ELSE DictPut(dd, depth, <<>>)

\* Line 217: `not self.keywords`.
NeedsKeywords(kws) == kws = <<>>

\* Every page is stored, relevant or not.
StoresEveryPage(is_relevant) == TRUE

\* Line 232.
StoresPage(is_relevant) == is_relevant

\* Lines 233-240 (content, title and crawl_time are not modelled).
PageRecord(url, depth, kws) == [url |-> url, depth |-> depth, matched_keywords |-> kws]

\* Line 241.
AppendDepth(dd, depth, url) == DictPut(dd, depth, Append(dd[depth], url))

\* The links of a page at max_depth are analysed too.
ExpandsLinksAtMax(depth, max) == depth <= max

\* Line 244.
ExpandsLinks(depth, max) == depth < max

\* Line 183, first conjunct.
InDomain(absolute_url, base) == StartsWith(absolute_url, base)

\* No link is followed.
FollowsNothing(relevant, url, visited) == FALSE

\* Line 248.
FollowsLink(relevant, url, visited) == relevant /\ ~AlreadyVisited(url, visited)

\* Lines 249-252: the recursive call's arguments.
ChildDepth(depth) == depth + 1

Frame(url, depth) ==
    [ url |-> url, depth |-> depth, at |-> "enter",
      links |-> 0, i |-> 0, href |-> <<>>, link_relevance |-> <<>>, j |-> 0 ]

Top == stack[Len(stack)]

SetTop(stk, f) == [stk EXCEPT ![Len(stk)] = f]

\* The running activation returns to its caller (line 208, the end of the
\* body, or the handler of lines 254-255).
Return(stk) == SubSeq(stk, 1, Len(stk) - 1)

\* The exception leaves every activation of crawl_page.
Propagate(stk) == <<>>

\* Lines 254-255: the handler logs, and the activation returns normally.
HandleError(stk) == Return(stk)

Running(at) == pc = "crawl_page" /\ stack # <<>> /\ Top.at = at

(***************************************************************************)
(* crawl, lines 297-307: the base URL is normalised, the browser launched  *)
(* and a page opened; crawl_page is called on the base URL at depth 0.     *)
(* A failing launch or new_page raises out of crawl.                       *)
(***************************************************************************)
SetupOutcomes == {"ok", "launch_raises", "new_page_raises"}

CrawlSetup ==
    /\ pc = "crawl"
    /\ base_url' = Normalize(base_url)
    /\ \E outcome \in SetupOutcomes :
         /\ browser' = IF outcome = "launch_raises" THEN "none" ELSE "open"
         /\ pc' = IF outcome = "ok" THEN "crawl_page" ELSE "raised"
         /\ stack' = IF outcome = "ok" THEN <<Frame(base_url', 0)>> ELSE <<>>
    /\ UNCHANGED << max_depth, run_state, report, calls, failed, followable,
                    all_negative >>
    /\ UNCHANGED << result, run, web >>

(***************************************************************************)
(* crawl_page, lines 207-213: the guard, the visited set, the depth list.  *)
(***************************************************************************)
CrawlPageEnter ==
    /\ Running("enter")
    /\ LET f == Top
       IN  IF SkipPage(f.depth, max_depth, f.url, visited_urls)
           THEN /\ stack' = Return(stack)
                /\ UNCHANGED << visited_urls, depth_data, calls >>
           ELSE /\ visited_urls' = MarkVisited(visited_urls, f.url)
                /\ depth_data' = InitDepth(depth_data, f.depth)
                /\ calls' = [calls EXCEPT !.enter = Bump(@, f.url),
                                          !.depth = DictPut(@, f.url, f.depth)]
                /\ stack' = SetTop(stack, [f EXCEPT !.at = "keywords"])
    /\ UNCHANGED << pc, base_url, max_depth, browser, page_relevance, page_data,
                    keywords, report, failed, followable, all_negative >>
    /\ UNCHANGED << result, run, web >>

(***************************************************************************)
(* crawl_page, lines 217-218: the keywords are asked for when self.keywords*)
(* is empty.                                                               *)
(***************************************************************************)
LazyKeywords ==
    /\ Running("keywords")
    /\ IF NeedsKeywords(keywords)
       THEN \E response \in KeywordResponses :
              /\ keywords' = get_semantic_keywords(response)
              /\ calls' = [calls EXCEPT !.keywords = @ + 1, !.answer = response]
              /\ all_negative' = (all_negative /\ NegativeKeywords(response))
       ELSE UNCHANGED << keywords, calls, all_negative >>
    /\ stack' = SetTop(stack, [Top EXCEPT !.at = "goto"])
    /\ UNCHANGED << pc, base_url, max_depth, browser, visited_urls, page_relevance,
                    page_data, depth_data, report, failed, followable >>
    /\ UNCHANGED << result, run, web >>

(***************************************************************************)
(* crawl_page, lines 220-227: page.goto, wait_for_load_state and           *)
(* inner_text('body'); each may raise, and the handler of lines 254-255    *)
(* then ends this activation.                                              *)
(***************************************************************************)
LoadOutcomes == {"loaded", "goto_raises", "wait_raises", "inner_text_raises"}

PageLoad ==
    /\ Running("goto")
    /\ \E outcome \in LoadOutcomes :
         /\ calls' = [calls EXCEPT !.goto = Bump(@, Top.url),
                                   !.smooth = @ /\ outcome = "loaded"]
         /\ IF outcome = "loaded"
            THEN /\ stack' = SetTop(stack, [Top EXCEPT !.at = "classify"])
                 /\ UNCHANGED failed
            ELSE /\ stack' = HandleError(stack)
                 /\ failed' = failed \cup {Top.url}
    /\ UNCHANGED << pc, base_url, max_depth, browser, run_state, report, followable,
                    all_negative >>
    /\ UNCHANGED << result, run, web >>

(***************************************************************************)
(* crawl_page, lines 228-244: the verdict is recorded; a relevant page is  *)
(* stored (page.title() may raise before anything is stored); below        *)
(* max_depth the links are analysed next.                                  *)
(***************************************************************************)
ClassifyPage ==
    /\ Running("classify")
    /\ \E response \in VerdictResponses, title_raises \in BOOLEAN :
         LET f == Top
             is_relevant == is_content_relevant(response)
         IN  /\ all_negative' = (all_negative /\ NegativeVerdict(response))
             /\ calls' = [calls EXCEPT
                           !.classify = Bump(@, f.url),
                           !.smooth = @ /\ ~(StoresPage(is_relevant) /\ title_raises)]
             /\ page_relevance' = DictPut(page_relevance, f.url, is_relevant)
             /\ IF StoresPage(is_relevant) /\ title_raises
                THEN /\ stack' = HandleError(stack)
                     /\ UNCHANGED << page_data, depth_data >>
                ELSE /\ IF StoresPage(is_relevant)
                        THEN /\ page_data' =
                                  DictPut(page_data, f.url,
                                          PageRecord(f.url, f.depth, keywords))
                             /\ depth_data' = AppendDepth(depth_data, f.depth, f.url)
                        ELSE UNCHANGED << page_data, depth_data >>
                     /\ stack' = IF ExpandsLinks(f.depth, max_depth)
                                 THEN SetTop(stack, [f EXCEPT !.at = "analyze"])
                                 ELSE Return(stack)
    /\ UNCHANGED << pc, base_url, max_depth, browser, visited_urls, keywords,
                    report, failed, followable >>
    /\ UNCHANGED << result, run, web >>

(***************************************************************************)
(* analyze_page_links, lines 176-198.  Every link of the page is classified*)
(* before analyze_page_links returns; an exception anywhere in it returns  *)
(* the verdicts collected so far.                                          *)
(***************************************************************************)
\* Line 181: `if href`.
HasHref(href) == href # <<>>

\* Line 183.
Eligible(current_url, href, base, visited) ==
    /\ HasHref(href)
    /\ InDomain(urljoin(current_url, href), base)
    /\ ~AlreadyVisited(urljoin(current_url, href), visited)

\* analyze_page_links returns link_relevance; the loop of line 247 starts.
ToFollow(f, link_relevance) ==
    [f EXCEPT !.at = "follow", !.links = 0, !.i = 0, !.href = <<>>,
              !.link_relevance = link_relevance, !.j = 1]

TrueKeys(link_relevance) ==
    {link_relevance[k][1] : k \in {n \in 1..Len(link_relevance) : link_relevance[n][2]}}

\* How many <a href> elements the page at url may hold, and what the href
\* of its i-th may be: what the site fixes for it, anything otherwise.
AnchorCounts(url) == IF url \in DOMAIN web THEN {Len(web[url])} ELSE 0..MaxAnchors

HrefsAt(url, i) == IF url \in DOMAIN web THEN {web[url][i]} ELSE Hrefs

\* Line 178: the number of <a href> elements found; the href of each is
\* read when its turn comes (line 180).  A raising query_selector_all
\* leaves what a page without links does (lines 196-198).
QuerySelectorAll ==
    /\ Running("analyze")
    /\ \E raises \in BOOLEAN :
       \E links \in IF raises THEN {0} ELSE AnchorCounts(Top.url) :
         /\ calls' = [calls EXCEPT !.analyze = @ \cup {Top.url},
                                   !.smooth = @ /\ ~raises]
         /\ stack' = SetTop(stack,
                            IF links = 0
                            THEN ToFollow(Top, <<>>)
                            ELSE [Top EXCEPT !.at = "links", !.links = links, !.i = 1])
    /\ UNCHANGED << pc, base_url, max_depth, browser, run_state, report, failed,
                    followable, all_negative >>
    /\ UNCHANGED << result, run, web >>

LinkOutcomes == {"ok", "get_attribute_raises", "context_raises"}

\* Lines 179-192, one iteration of the loop.
AnalyzeLink ==
    /\ Running("links")
    /\ \E href \in HrefsAt(Top.url, Top.i), outcome \in LinkOutcomes :
       \E response \in IF outcome = "ok"
                          /\ Eligible(Top.url, href, base_url, visited_urls)
                       THEN VerdictResponses
                       ELSE {Err} :      \* no call is made: nothing is answered
         LET f == Top
             absolute_url == urljoin(f.url, href)
             eligible == Eligible(f.url, href, base_url, visited_urls)
             classified == outcome = "ok" /\ eligible
             link_relevance ==
                 IF classified
                 THEN OrderedPut(f.link_relevance, absolute_url,
                                 should_follow_link(response))
                 ELSE f.link_relevance
             returns == outcome # "ok" \/ f.i = f.links
         IN  /\ outcome = "context_raises" => eligible
             /\ calls' = [calls EXCEPT
                           !.follow = IF classified THEN @ \cup {absolute_url} ELSE @,
                           !.judged = IF classified /\ should_follow_link(response)
                                      THEN @ \cup {absolute_url} ELSE @,
                           !.smooth = /\ @
                                      /\ outcome = "ok"
                                      /\ classified => should_follow_link(response)]
             /\ all_negative' =
                  (all_negative /\ (classified => NegativeVerdict(response)))
             /\ followable' = IF returns
                              THEN followable \cup TrueKeys(link_relevance)
                              ELSE followable
             /\ stack' = SetTop(stack,
                                IF returns
                                THEN ToFollow(f, link_relevance)
                                ELSE [f EXCEPT !.i = f.i + 1, !.href = href,
                                               !.link_relevance = link_relevance])
    /\ UNCHANGED << pc, base_url, max_depth, browser, run_state, report, failed >>
    /\ UNCHANGED << result, run, web >>

(***************************************************************************)
(* crawl_page, lines 247-252: the loop over link_relevance.items().        *)
(***************************************************************************)
\* The loop stays on the item it has.
SameItem(j) == j

\* The for statement takes the next item of link_relevance.items().
NextItem(j) == j + 1

FollowLink ==
    /\ Running("follow")
    /\ Top.j <= Len(Top.link_relevance)
    /\ LET f == Top
           url == f.link_relevance[f.j][1]
           relevant == f.link_relevance[f.j][2]
           parent == SetTop(stack, [f EXCEPT !.j = NextItem(f.j)])
       IN  IF FollowsLink(relevant, url, visited_urls)
           THEN /\ stack' = Append(parent, Frame(url, ChildDepth(f.depth)))
                /\ calls' = [calls EXCEPT !.recurse = @ \cup {url}]
           ELSE /\ stack' = parent
                /\ UNCHANGED calls
    /\ UNCHANGED << pc, base_url, max_depth, browser, run_state, report, failed,
                    followable, all_negative >>
    /\ UNCHANGED << result, run, web >>

\* The loop is over: crawl_page returns.
CrawlPageReturn ==
    /\ Running("follow")
    /\ Top.j > Len(Top.link_relevance)
    /\ stack' = Return(stack)
    /\ UNCHANGED << pc, base_url, max_depth, browser, run_state, report, calls,
                    failed, followable, all_negative >>
    /\ UNCHANGED << result, run, web >>

(***************************************************************************)
(* save_results, lines 266-286, called at line 308 when the crawl_page of  *)
(* the base URL has returned; writing the file may raise, which the        *)
(* handler of lines 311-312 logs.  The keys of depth_analysis are the      *)
(* depths (str(depth) in the code).                                        *)
(***************************************************************************)
RelevantCount(relevance) == Cardinality({u \in DOMAIN relevance : relevance[u]})

BuildReport(written) ==
    [ built |-> TRUE, written |-> written,
      total_pages |-> Cardinality(visited_urls),
      relevant_pages |-> RelevantCount(page_relevance),
      keywords_used |-> keywords,
      relevance_map |-> page_relevance,
      depth_analysis |->
          [d \in DOMAIN depth_data |->
              [urls |-> depth_data[d], count |-> Len(depth_data[d])]],
      page_data |-> page_data ]

SaveResults ==
    /\ pc = "crawl_page"
    /\ stack = <<>>
    /\ \E write_raises \in BOOLEAN : report' = BuildReport(~write_raises)
    /\ pc' = "finally"
    /\ UNCHANGED << base_url, max_depth, browser, run_state, stack, calls, failed,
                    followable, all_negative >>
    /\ UNCHANGED << result, run, web >>

\* Line 314; crawl returns None.
CloseBrowser ==
    /\ pc = "finally"
    /\ browser' = "closed"
    /\ pc' = "done"
    /\ result' = [returned |-> TRUE, value |-> NoneValue, write_error |-> FALSE]
    /\ UNCHANGED << base_url, max_depth, run_state, stack, report, calls, failed,
                    followable, all_negative >>
    /\ UNCHANGED << run, web >>

Next ==
    \/ CrawlSetup
    \/ CrawlPageEnter
    \/ LazyKeywords
    \/ PageLoad
    \/ ClassifyPage
    \/ QuerySelectorAll
    \/ AnalyzeLink
    \/ FollowLink
    \/ CrawlPageReturn
    \/ SaveResults
    \/ CloseBrowser

Spec == Init /\ [][Next]_vars

\* The event loop runs the one coroutine until it completes, and every call
\* into the oracle or the browser returns or raises (both have timeouts).
FairSpec == Spec /\ WF_vars(Next)

(***************************************************************************)
(* One crawl() run on a site whose pages and links are fixed.              *)
(***************************************************************************)
InitSite ==
    /\ Constructed
    /\ Called
    /\ run = 1
    /\ web \in Sites

SpecSite == InitSite /\ [][Next]_vars

(***************************************************************************)
(* The crawler object used again: crawl() is called once more on the       *)
(* object after the call before it has exited.  __init__ is not run again, *)
(* and crawl assigns none of the object's attributes before crawl_page.    *)
(***************************************************************************)
CrawlAgain ==
    /\ pc \in {"done", "raised"}
    /\ run < MaxRuns
    /\ run' = run + 1
    /\ pc' = "crawl"
    /\ base_url' \in BaseInputs
    /\ max_depth' \in -1..MaxDepth
    /\ browser' = "none"
    /\ stack' = <<>>
    /\ report' = NoReport
    /\ result' = NoResult
    /\ calls' = NoCalls
    /\ failed' = {}
    /\ followable' = {}
    /\ all_negative' = TRUE
    /\ UNCHANGED << run_state, web >>

NextReuse ==
    \/ Next
    \/ CrawlAgain

SpecReuse == Init /\ [][NextReuse]_vars

(***************************************************************************)
(* Properties.                                                             *)
(***************************************************************************)
DepthUrls(d) == {depth_data[d][k] : k \in 1..Len(depth_data[d])}

AllDepthUrls == UNION {DepthUrls(d) : d \in DOMAIN depth_data}

TrueUrls == {u \in DOMAIN page_relevance : page_relevance[u]}

\* C1: once the report is built, the keys of page_relevance are exactly
\* visited_urls, and the report's total_pages is the number of entries of
\* its relevance_map.
C1_RelevanceKeysAreVisited ==
    report.built =>
        /\ DOMAIN page_relevance = visited_urls
        /\ report.total_pages = Cardinality(DOMAIN report.relevance_map)

\* C2: within one run every URL is added to the visited set at most once,
\* loaded (page.goto) at most once and page-classified at most once, and
\* only visited URLs are loaded or classified.
C2_ProcessedAtMostOnce ==
    /\ DOMAIN calls.enter = visited_urls
    /\ DOMAIN calls.goto \subseteq visited_urls
    /\ DOMAIN calls.classify \subseteq DOMAIN calls.goto
    /\ \A u \in visited_urls :
         /\ Count(calls.enter, u) = 1
         /\ Count(calls.goto, u) <= 1
         /\ Count(calls.classify, u) <= 1

\* C2's case: a page below the base page is being analysed and one of its
\* links leads back to a page on the stack of activations (a cycle), each
\* page on the stack having been loaded once.
C2_Witness ==
    /\ Running("links")
    /\ Len(stack) >= 2
    /\ HasHref(Top.href)
    /\ \E n \in 1..(Len(stack) - 1) :
         /\ urljoin(Top.url, Top.href) = stack[n].url
         /\ Count(calls.goto, stack[n].url) = 1

\* C3: once crawl_page has been called on the base URL, every activation
\* of crawl_page returns and the report is built.
C3_TraversalTerminates == (pc = "crawl_page") ~> (stack = <<>> /\ report.built)

\* C3's case: the report of a run that visited three pages, one of which
\* failed to load.
C3_Witness ==
    /\ report.built
    /\ stack = <<>>
    /\ Cardinality(visited_urls) = 3
    /\ failed # {}

\* C4: get_semantic_keywords is called at most once per run.
C4_KeywordsExpandedOnce == calls.keywords <= 1

\* C5: every URL of depth_data[d] is a key of page_data with depth d and
\* has a True verdict; page_data holds only URLs with a True verdict.
C5_DepthIndexConsistent ==
    /\ \A d \in DOMAIN depth_data : \A u \in DepthUrls(d) :
         /\ u \in DOMAIN page_data
         /\ page_data[u].depth = d
         /\ u \in TrueUrls
    /\ DOMAIN page_data \subseteq TrueUrls

\* C5's case: relevant pages are stored at two levels while a page judged
\* not relevant has been recorded too.
C5_Witness ==
    /\ \E d1, d2 \in DOMAIN depth_data :
         d1 # d2 /\ depth_data[d1] # <<>> /\ depth_data[d2] # <<>>
    /\ \E u \in DOMAIN page_relevance : ~page_relevance[u]

\* C6: no URL occurs twice in one list of depth_data, and no URL occurs in
\* the lists of two levels.
C6_DepthIndexDisjoint ==
    /\ \A d \in DOMAIN depth_data :
         Cardinality(DepthUrls(d)) = Len(depth_data[d])
    /\ \A d1, d2 \in DOMAIN depth_data :
         d1 # d2 => DepthUrls(d1) \cap DepthUrls(d2) = {}

\* C6's case: a page at depth 1 links to a URL that is already recorded at
\* depth 1, so that URL is reachable at depth 2 as well.
C6_Witness ==
    /\ Running("links")
    /\ Top.depth = 1
    /\ 1 \in DOMAIN depth_data
    /\ HasHref(Top.href)
    /\ urljoin(Top.url, Top.href) \in DepthUrls(1)
    /\ urljoin(Top.url, Top.href) # Top.url

\* C7: with max_depth 0 only the normalised base URL is visited, and
\* neither analyze_page_links nor should_follow_link is called, nor is
\* crawl_page called from crawl_page.
C7_DepthZeroVisitsBaseOnly ==
    max_depth = 0 =>
        /\ visited_urls \subseteq {Normalize(base_url)}
        /\ report.built => visited_urls = {Normalize(base_url)}
        /\ calls.analyze = {}
        /\ calls.follow = {}
        /\ calls.recurse = {}
        /\ Len(stack) <= 1

\* C7's case: a finished run with max_depth 0 whose base page was relevant.
C7_Witness ==
    /\ max_depth = 0
    /\ pc = "done"
    /\ TrueUrls = {base_url}

\* The results of a run in which nothing but the base URL was visited and
\* nothing was found relevant.
OnlyBaseNothingRelevant ==
    /\ visited_urls \subseteq {Normalize(base_url)}
    /\ report.built => visited_urls = {Normalize(base_url)}
    /\ TrueUrls = {}
    /\ page_data = EmptyDict
    /\ AllDepthUrls = {}
    /\ report.built => report.relevant_pages = 0

\* C8 as stated: when every oracle call answers false or fails, then for
\* any max depth only the base URL is visited and nothing is relevant.
C8_AllNegativeAnyDepth == all_negative => OnlyBaseNothingRelevant

\* C8 amended: the same for any max depth of at least 0.
C8_AllNegativeVisitsBaseOnly ==
    (all_negative /\ max_depth >= 0) => OnlyBaseNothingRelevant

\* C8's case: a finished run with max_depth above 0 whose base page was
\* loaded and had its links analysed, the oracle failing or refusing
\* throughout (at least three calls: keywords, the page, a link).
C8_Witness ==
    /\ all_negative
    /\ pc = "done"
    /\ max_depth > 0
    /\ calls.keywords >= 1
    /\ calls.follow # {}
    /\ visited_urls = {base_url}

\* C9: the base URL the links are compared with has a scheme and a final
\* slash; every URL passed to should_follow_link, and every URL of the
\* visited set, the relevance map, the depth index and the page records,
\* starts with it.
C9_DomainConfinement ==
    pc # "crawl" =>
        /\ HasScheme(base_url)
        /\ EndsWith(base_url, <<"/">>)
        /\ \A u \in calls.follow \cup visited_urls \cup DOMAIN page_relevance
                     \cup AllDepthUrls \cup DOMAIN page_data :
             StartsWith(u, base_url)
        /\ OtherHost \notin calls.follow \cup visited_urls

\* C9's case: a link to another host, which has the un-slashed base URL as
\* a prefix, has just been passed over by the link analysis.
C9_Witness ==
    /\ Running("links")
    /\ Top.i = 2
    /\ Top.href = OtherHost
    /\ Top.link_relevance = <<>>

\* C10: a failing page load ends only its own activation (the caller's is
\* the running one afterwards) and leaves the recorded results unchanged;
\* and when the report is built every URL a link analysis left followable
\* has been visited.
C10_LoadFailureIsLocal ==
    /\ [][ failed' # failed =>
              /\ stack' = Return(stack)
              /\ pc' = "crawl_page"
              /\ run_state' = run_state ]_vars
    /\ [](report.built => followable \subseteq visited_urls)

\* C10's case: the load of one followable link of a page failed, and the
\* next followable link of the same page is being crawled.
C10_Witness ==
    /\ Len(stack) >= 2
    /\ LET parent == stack[Len(stack) - 1]
       IN  /\ parent.j >= 3
           /\ parent.link_relevance[parent.j - 2][1] \in failed
           /\ parent.link_relevance[parent.j - 1][1] = Top.url
           /\ Top.at = "goto"

\* C11: while the links of a page are being processed (the next link is
\* about to be read and passed to should_follow_link), every earlier link
\* of that page that was judged followable has been crawled already.
C11_DescentBeforeNextSibling ==
    Running("links") =>
        \A k \in 1..Len(Top.link_relevance) :
            Top.link_relevance[k][2] => Top.link_relevance[k][1] \in visited_urls

\* C12: when crawl has exited, by returning or by raising, a browser that
\* was launched has been closed (browser.close was called on it); and the
\* browser is open throughout the traversal and the writing of the report.
C12_BrowserReleasedOnEveryExit ==
    /\ pc \in {"done", "raised"} => browser \in {"none", "closed"}
    /\ pc \in {"crawl_page", "finally"} => browser = "open"

\* C13: when crawl has returned, its caller holds the report of the run,
\* and has been told of a failed write of the report file.
C13_ReportReturnedToCaller ==
    pc = "done" =>
        /\ result.value = report
        /\ ~report.written => result.write_error

\* C14: when the oracle call of the keyword expansion failed (it raised,
\* or answered with an empty text), the keywords the crawl goes on with
\* are the empty sequence.
C14_FailedExpansionGivesEmpty ==
    (calls.keywords > 0 /\ NegativeKeywords(calls.answer)) => keywords = <<>>

\* C15: whenever crawl is called, the visited set, the relevance map, the
\* page records, the depth index and the keyword cache are empty.
C15_EachCrawlStartsEmpty == pc = "crawl" => Constructed

\* C16: when the report is built, every URL that should_follow_link
\* answered True for, for some anchor of an analysed page, has been visited.
C16_FollowableAnchorsVisited == report.built => calls.judged \subseteq visited_urls

\* C17: the activation of the base URL runs at depth 0 and every other one
\* at its caller's depth + 1; a caller runs at a depth below max_depth; an
\* activation past the guard of line 207 (one that entered its URL into
\* the visited set, loads or classifies it) runs at a depth of at most
\* max_depth, and so no stored depth exceeds max_depth; with a negative
\* max_depth nothing is visited, loaded or classified.
C17_DepthBounded ==
    /\ \A k \in 1..Len(stack) :
         /\ stack[k].depth = k - 1
         /\ k < Len(stack) => stack[k].depth < max_depth
         /\ stack[k].at # "enter" => stack[k].depth <= max_depth
    /\ \A d \in DOMAIN depth_data : d <= max_depth
    /\ \A u \in DOMAIN page_data : page_data[u].depth <= max_depth
    /\ max_depth < 0 =>
         /\ visited_urls = {}
         /\ calls.goto = EmptyDict
         /\ calls.classify = EmptyDict

\* C17's case: with max_depth 2 a page two links below the base page has
\* been loaded and is about to be classified, at depth 2.
C17_Witness ==
    /\ max_depth = 2
    /\ Len(stack) = 3
    /\ Running("classify")
    /\ Top.depth = 2

\* C18: whatever verdict is_content_relevant gives for a loaded page at a
\* depth below max_depth, the analysis of the page's links comes next.
C18_LinksAnalysedWhateverVerdict ==
    [][ (calls'.classify # calls.classify /\ Top.depth < max_depth) =>
            /\ Len(stack') = Len(stack)
            /\ stack'[Len(stack')].at = "analyze" ]_vars

\* The in-domain URLs the anchors of the fixed page u lead to.
LinkedFrom(u) ==
    { urljoin(u, web[u][k]) :
        k \in {n \in 1..Len(web[u]) :
                  HasHref(web[u][n]) /\ InDomain(urljoin(u, web[u][n]), base_url)} }

\* The URLs a chain of at most n links leads to from the base URL.
RECURSIVE Reachable(_)
Reachable(n) ==
    IF n <= 0 THEN {base_url}
    ELSE LET near == Reachable(n - 1)
         IN  near \cup UNION {LinkedFrom(u) : u \in near \cap DOMAIN web}

\* Every page load and every extraction succeeded and should_follow_link
\* answered True for every link, and the report is built.
SmoothRunEnded == report.built /\ calls.smooth /\ max_depth >= 0

\* C19 as stated: after such a run every in-domain URL that a chain of at
\* most max_depth links leads to from the base URL has been visited.
C19_CoverageWithinBudget == SmoothRunEnded => Reachable(max_depth) \subseteq visited_urls

\* C19 amended: after such a run the base URL has been visited, and so has
\* every in-domain URL linked from a page that was visited at a depth
\* below max_depth (the depth of a page being that of its one visit, which
\* is the length of the path the traversal took, not of the shortest one);
\* with max_depth at most 1 this is every URL within max_depth links.
C19_CoverageBelowVisitDepth ==
    SmoothRunEnded =>
        /\ base_url \in visited_urls
        /\ \A u \in visited_urls \cap DOMAIN web :
             calls.depth[u] < max_depth => LinkedFrom(u) \subseteq visited_urls
        /\ max_depth <= 1 => Reachable(max_depth) \subseteq visited_urls

\* C19's case: on the site Shadowed with max_depth 2 the run ended with
\* /b visited at depth 2 (by way of /a), its links not analysed, and /c,
\* two links from the base page, not visited.
C19_Witness ==
    /\ SmoothRunEnded
    /\ web = Shadowed
    /\ max_depth = 2
    /\ PageB \in visited_urls
    /\ calls.depth[PageB] = 2
    /\ PageC \notin visited_urls

\* The sum of the counts of the report's depth_analysis over the depths ds.
RECURSIVE SumCounts(_, _)
SumCounts(depth_analysis, ds) ==
    IF ds = {} THEN 0
    ELSE LET d == CHOOSE x \in ds : TRUE
         IN  depth_analysis[d].count + SumCounts(depth_analysis, ds \ {d})

\* C20: in the report, relevant_pages equals the number of page records
\* and the sum of the counts of depth_analysis.
C20_ReportCountsAgree ==
    report.built =>
        /\ report.relevant_pages = Cardinality(DOMAIN report.page_data)
        /\ report.relevant_pages =
             SumCounts(report.depth_analysis, DOMAIN report.depth_analysis)

============================================================================
